---- MODULE Spec2Model ----
(***************************************************************************)
(* Model of the image compression page (src/App.tsx) and of the upload     *)
(* widget that feeds it (src/unnamed/part_000, the FileUploader).          *)
(*                                                                         *)
(* React state is modelled by one variable per useState cell.  A handler   *)
(* and the render and effect it triggers form one atomic action: state     *)
(* updates of one event are batched, and the effect of the following       *)
(* render runs before the next event is dispatched.  The asynchronous      *)
(* part of processFiles (everything after the await) runs in the step in   *)
(* which the last Compression Task of the run settles.                     *)
(*                                                                         *)
(* Strings whose characters matter (file names, media types, map keys)     *)
(* are sequences of one-character strings.  Quality is an integer          *)
(* percentage: 0.8 is 80.                                                  *)
(***************************************************************************)
EXTENDS Integers, Sequences, FiniteSets, TLC

VARIABLES
    originalFiles,      \* useState<File[]>                       App.tsx:13
    quality,            \* useState<number>, in percent           App.tsx:14
    isProcessing,       \* useState<boolean>                      App.tsx:15
    compressedResults,  \* useState<Map<string, CompressedResult>> App.tsx:16
    errors,             \* useState<Map<string, string>>          App.tsx:17
    runs,               \* processFiles calls awaiting Promise.allSettled
    launched,           \* compressFile calls so far
    urls,               \* object URLs created so far |-> revokeObjectURL calls
    picked,             \* the FileList of the last selection (SpecFilter only)
    rows                \* the rendered file rows: download link attributes

vars == <<originalFiles, quality, isProcessing, compressedResults, errors,
          runs, launched, urls, picked, rows>>

----------------------------------------------------------------------------
(* Bounds of the model *)

\* compressFile calls in one behaviour of Spec, and the longest selection
\* handed to handleFileSelect there
MaxTasks == 3
\* longest selection handed to handleFileSelect in SpecFilter
MaxSelFilter == 7
\* slider positions above the minimum that the user moves the slider to
MaxSliderSteps == 1
\* longest file name handed to getCompressedFileName in SpecNames
MaxNameLen == 4

(* Program constants *)

\* imageFiles.slice(0, 5)
MaxBatch == 5
\* useState<number>(0.8), setQuality(0.8)
DefaultQuality == 80
\* <input type="range" min="0.1" max="1" step="0.05">
QualityMin == 10
QualityMax == 100
QualityStep == 5

----------------------------------------------------------------------------
(* Strings *)

ImagePrefix == <<"i", "m", "a", "g", "e", "/">>
TypePng == ImagePrefix \o <<"p", "n", "g">>
TypeJpeg == ImagePrefix \o <<"j", "p", "e", "g">>
TypeText == <<"t", "e", "x", "t", "/", "p", "l", "a", "i", "n">>

\* String.prototype.startsWith
StartsWith(s, prefix) ==
    /\ Len(s) >= Len(prefix)
    /\ SubSeq(s, 1, Len(prefix)) = prefix

\* the key of the validation error in the errors map
GlobalKey == <<"g", "l", "o", "b", "a", "l">>

\* the messages of the errors map, by the place that raises them
MsgNoImages == "select image files"
MsgReadResult == "could not read file"
MsgReadError == "file read error"
MsgNoContext == "could not get canvas context"
MsgNoBlob == "could not create blob"
MsgImageError == "could not load image"

----------------------------------------------------------------------------
(* Files.  faults names the stages of compressFile that fail for the file  *)
(* if the task gets to them (none: every stage succeeds); the encoder is   *)
(* deterministic.                                                          *)

Photo ==
    [name |-> <<"a", ".", "p", "n", "g">>, type |-> TypePng,
     size |-> 2000, faults |-> {}]
Corrupt ==
    [name |-> <<"c", ".", "j", "p", "g">>, type |-> TypeJpeg,
     size |-> 1000, faults |-> {"decode"}]
\* a second file called a.png, from another folder, that does not decode
Shadow ==
    [name |-> <<"a", ".", "p", "n", "g">>, type |-> TypePng,
     size |-> 500, faults |-> {"decode"}]
Notes ==
    [name |-> <<"n", ".", "t", "x", "t">>, type |-> TypeText,
     size |-> 100, faults |-> {}]

\* the files of Spec and of SpecFilter
FileUniverse == {Photo, Corrupt, Shadow, Notes}
FilterUniverse == {Photo, Corrupt, Notes}

\* the non-empty FileLists of at most n files of U
Selections(U, n) == UNION {[1..k -> U] : k \in 1..n}

\* the selections of Spec and of SpecFilter
SpecSelections == Selections(FileUniverse, MaxTasks)
FilterSelections == Selections(FilterUniverse, MaxSelFilter)

\* a slider without its step attribute
QualityGridNoStep == QualityMin..QualityMax

\* the positions of the quality slider
QualityGrid ==
    {q \in QualityMin..QualityMax : (q - QualityMin) % QualityStep = 0}

\* the positions the user moves it to: the lowest ones and the highest
SliderInputs ==
    {q \in QualityGrid : q <= QualityMin + MaxSliderSteps * QualityStep}
        \cup {QualityMax}

----------------------------------------------------------------------------
(* Map<K, V> as a function with a finite domain *)

EmptyMap == [k \in {} |-> 0]

MapSet(m, k, v) == [x \in DOMAIN m \cup {k} |-> IF x = k THEN v ELSE m[x]]

\* the object URLs held by a Map<string, CompressedResult>
UrlsOf(m) == {m[k].url : k \in DOMAIN m}

----------------------------------------------------------------------------
(* Compression Task *)

Pending == [status |-> "pending", size |-> 0, url |-> <<0, 0>>, reason |-> ""]
Fulfilled(size, url) ==
    [status |-> "fulfilled", size |-> size, url |-> url, reason |-> ""]
Rejected(reason) ==
    [status |-> "rejected", size |-> 0, url |-> <<0, 0>>, reason |-> reason]

\* canvas.toBlob(..., 'image/jpeg', qualityValue): the size of the blob
EncodedSize(file, qualityValue) == (file.size * qualityValue) \div 100

\* compressFile with image.onerror consulted before the FileReader
compressFileDecodeFirst(file, qualityValue, url) ==
    IF "decode" \in file.faults THEN Rejected(MsgImageError)
    ELSE IF "readerror" \in file.faults THEN Rejected(MsgReadError)
    ELSE IF "readresult" \in file.faults THEN Rejected(MsgReadResult)
    ELSE IF "context" \in file.faults THEN Rejected(MsgNoContext)
    ELSE IF "encode" \in file.faults THEN Rejected(MsgNoBlob)
    ELSE Fulfilled(EncodedSize(file, qualityValue), url)

\* compressFile: the outcome the promise settles with; url is the object
\* URL that URL.createObjectURL returns if the task gets that far
compressFile(file, qualityValue, url) ==
    IF "readerror" \in file.faults THEN Rejected(MsgReadError)
    ELSE IF "readresult" \in file.faults THEN Rejected(MsgReadResult)
    ELSE IF "decode" \in file.faults THEN Rejected(MsgImageError)
    ELSE IF "context" \in file.faults THEN Rejected(MsgNoContext)
    ELSE IF "encode" \in file.faults THEN Rejected(MsgNoBlob)
    ELSE Fulfilled(EncodedSize(file, qualityValue), url)

----------------------------------------------------------------------------
(* File Filter *)

\* file.type.startsWith('image/')
IsImage(file) == StartsWith(file.type, ImagePrefix)

\* Array.from(files).filter(file => file.type.startsWith('image/'))
imageFiles(files) == SelectSeq(files, IsImage)

\* slice(1, n) in place of slice(0, n)
SliceFrom1(s, n) == SubSeq(s, 2, IF Len(s) < n THEN Len(s) ELSE n)

\* Array.prototype.slice(0, n)
SliceFrom0(s, n) == SubSeq(s, 1, IF Len(s) < n THEN Len(s) ELSE n)

----------------------------------------------------------------------------
(* Object URLs *)

\* URL.createObjectURL: a URL never handed out before
CreateObjectURL(u, url) == MapSet(u, url, 0)

\* results.forEach(result => URL.revokeObjectURL(result.url))
RevokeAll(u, results) ==
    [h \in DOMAIN u |-> IF h \in UrlsOf(results) THEN u[h] + 1 ELSE u[h]]

----------------------------------------------------------------------------
(* Orchestrator *)

MapDelete(m, k) == [x \in DOMAIN m \ {k} |-> m[x]]

\* a processFiles call suspended at its await: what its closure captured
\* and the state of the promises it waits for
NewRun(files, q) ==
    [files |-> files, quality |-> q, tasks |-> [i \in 1..Len(files) |-> Pending]]

\* Promise.all in place of Promise.allSettled: settles on the first rejection
allOrFirstRejected(tasks) ==
    \/ \A i \in 1..Len(tasks) : tasks[i].status = "fulfilled"
    \/ \E i \in 1..Len(tasks) : tasks[i].status = "rejected"

\* Promise.all whose rejection ends processFiles: the code after the await
\* runs only if every promise is fulfilled
allFulfilled(tasks) == \A i \in 1..Len(tasks) : tasks[i].status = "fulfilled"

\* Promise.allSettled resolves once no promise is pending
allSettled(tasks) == \A i \in 1..Len(tasks) : tasks[i].status # "pending"

\* processFiles without its setCompressedResults(new Map()) before the await
useEffectKeepingResults(files, q, results, u) ==
    IF Len(files) = 0
    THEN /\ compressedResults' = results
         /\ urls' = u
         /\ UNCHANGED <<isProcessing, runs, launched>>
    ELSE /\ isProcessing' = TRUE
         /\ compressedResults' = results
         /\ urls' = RevokeAll(u, results)
         /\ runs' = MapSet(runs, launched + 1, NewRun(files, q))
         /\ launched' = launched + Len(files)

\* the effect of the render whose state is files, q, results, with the
\* object URLs u: processFiles up to its await.  A run is numbered by the
\* first compressFile call it makes.
useEffect(files, q, results, u) ==
    IF Len(files) = 0
    THEN /\ compressedResults' = results
         /\ urls' = u
         /\ UNCHANGED <<isProcessing, runs, launched>>
    ELSE /\ isProcessing' = TRUE
         /\ compressedResults' = EmptyMap
         /\ urls' = RevokeAll(u, results)
         /\ runs' = MapSet(runs, launched + 1, NewRun(files, q))
         /\ launched' = launched + Len(files)

\* results.forEach((result, index) => ...), the fulfilled branch, for the
\* first n results
RECURSIVE newCompressedResults(_, _, _)
newCompressedResults(files, tasks, n) ==
    IF n = 0 THEN EmptyMap
    ELSE LET m == newCompressedResults(files, tasks, n - 1) IN
         IF tasks[n].status = "fulfilled"
         THEN MapSet(m, files[n].name,
                     [size |-> tasks[n].size, url |-> tasks[n].url])
         ELSE m

\* results.forEach((result, index) => ...), the rejected branch
RECURSIVE newErrors(_, _, _)
newErrors(files, tasks, n) ==
    IF n = 0 THEN EmptyMap
    ELSE LET m == newErrors(files, tasks, n - 1) IN
         IF tasks[n].status = "rejected"
         THEN MapSet(m, files[n].name, tasks[n].reason)
         ELSE m

\* task i of run r with its promise settled
SettleTask(r, i) ==
    [runs[r].tasks EXCEPT
        ![i] = compressFile(runs[r].files[i], runs[r].quality, <<r, i>>)]

\* the object URLs after task i of run r has settled
UrlsAfterTask(r, i) ==
    IF SettleTask(r, i)[i].status = "fulfilled"
    THEN CreateObjectURL(urls, <<r, i>>)
    ELSE urls

----------------------------------------------------------------------------
(* Download name *)

\* the index of the first sep in s, 0 if there is none
RECURSIVE indexOf(_, _, _)
indexOf(s, sep, from) ==
    IF from > Len(s) THEN 0
    ELSE IF s[from] = sep THEN from
    ELSE indexOf(s, sep, from + 1)

\* String.prototype.split(sep), sep one character
RECURSIVE split(_, _)
split(s, sep) ==
    LET k == indexOf(s, sep, 1) IN
    IF k = 0 THEN <<s>>
    ELSE <<SubSeq(s, 1, k - 1)>> \o split(SubSeq(s, k + 1, Len(s)), sep)

\* Array.prototype.pop: the array it leaves
pop(parts) == SubSeq(parts, 1, Len(parts) - 1)

\* join that leaves the separator out
RECURSIVE joinNoSeparator(_, _)
joinNoSeparator(parts, sep) ==
    IF parts = <<>> THEN <<>>
    ELSE Head(parts) \o joinNoSeparator(Tail(parts), sep)

\* Array.prototype.join(sep)
RECURSIVE join(_, _)
join(parts, sep) ==
    IF parts = <<>> THEN <<>>
    ELSE IF Len(parts) = 1 THEN Head(parts)
    ELSE Head(parts) \o <<sep>> \o join(Tail(parts), sep)

\* the literal that ends the template string of getCompressedFileName
NameSuffix ==
    <<"_", "K", "o", "l", "e", "r", "s", "k", "y", "A", "I", "_",
      "c", "o", "m", "p", "r", "e", "s", "s", "e", "d", ".", "j", "p", "g">>

getCompressedFileName(originalName) ==
    join(pop(split(originalName, ".")), ".") \o NameSuffix

----------------------------------------------------------------------------
(* Render *)

\* the download link of each file row: result is
\* compressedResults.get(file.name); the click is cancelled when disabled
Render(files, results, processing) ==
    [i \in 1..Len(files) |->
        LET name == files[i].name IN
        [download |-> getCompressedFileName(name),
         href     |-> IF name \in DOMAIN results
                      THEN results[name].url ELSE <<0, 0>>,
         disabled |-> name \notin DOMAIN results \/ processing]]

\* the render that follows the state updates of a step
Rendered == rows' = Render(originalFiles', compressedResults', isProcessing')

----------------------------------------------------------------------------
(* Actions *)

Init ==
    /\ originalFiles = <<>>
    /\ quality = DefaultQuality
    /\ isProcessing = FALSE
    /\ compressedResults = EmptyMap
    /\ errors = EmptyMap
    /\ runs = EmptyMap
    /\ launched = 0
    /\ urls = EmptyMap
    /\ picked = <<>>
    /\ rows = <<>>

\* handleFileSelect without the return that follows the validation error
HandleFileSelectNoReturn(files) ==
    /\ originalFiles = <<>>
    /\ Len(files) > 0
    /\ errors' = EmptyMap
    /\ originalFiles' = SliceFrom0(imageFiles(files), MaxBatch)
    /\ UNCHANGED quality
    /\ useEffect(SliceFrom0(imageFiles(files), MaxBatch), quality,
                 EmptyMap, urls)
    /\ Rendered

\* FileUploader.handleFileChange / handleDrop -> App.handleFileSelect, then
\* the render and its effect.  The uploader is mounted only while the batch
\* is empty and passes on only non-empty selections.
HandleFileSelect(files) ==
    /\ originalFiles = <<>>
    /\ Len(files) > 0
    /\ \/ /\ Len(imageFiles(files)) = 0
          /\ errors' = MapSet(EmptyMap, GlobalKey, MsgNoImages)
          /\ UNCHANGED <<originalFiles, quality, isProcessing,
                         compressedResults, runs, launched, urls>>
       \/ /\ Len(imageFiles(files)) # 0
          /\ errors' = EmptyMap
          /\ originalFiles' = SliceFrom0(imageFiles(files), MaxBatch)
          /\ UNCHANGED quality
          /\ useEffect(SliceFrom0(imageFiles(files), MaxBatch), quality,
                       EmptyMap, urls)
    /\ Rendered

\* handleReset without its setCompressedResults(new Map())
HandleResetKeepingResults ==
    /\ originalFiles # <<>>
    /\ originalFiles' = <<>>
    /\ errors' = EmptyMap
    /\ quality' = DefaultQuality
    /\ useEffect(<<>>, DefaultQuality, compressedResults,
                 RevokeAll(urls, compressedResults))
    /\ UNCHANGED picked
    /\ Rendered

\* handleReset without its setQuality(0.8)
HandleResetKeepingQuality ==
    /\ originalFiles # <<>>
    /\ originalFiles' = <<>>
    /\ errors' = EmptyMap
    /\ UNCHANGED quality
    /\ useEffect(<<>>, quality, EmptyMap, RevokeAll(urls, compressedResults))
    /\ UNCHANGED picked
    /\ Rendered

\* the "load new" button, shown while the batch is not empty
HandleReset ==
    /\ originalFiles # <<>>
    /\ originalFiles' = <<>>
    /\ errors' = EmptyMap
    /\ quality' = DefaultQuality
    /\ useEffect(<<>>, DefaultQuality, EmptyMap,
                 RevokeAll(urls, compressedResults))
    /\ UNCHANGED picked
    /\ Rendered

\* the quality slider, shown while the batch is not empty and disabled
\* while isProcessing
HandleQualityChange(q) ==
    /\ originalFiles # <<>>
    /\ ~isProcessing
    /\ q \in QualityGrid
    /\ q # quality
    /\ quality' = q
    /\ UNCHANGED <<originalFiles, errors, picked>>
    /\ useEffect(originalFiles, q, compressedResults, urls)
    /\ Rendered

\* a promise of compressFile settles while others of its run are pending
CompressFileSettles(r, i) ==
    /\ r \in DOMAIN runs
    /\ i \in 1..Len(runs[r].tasks)
    /\ runs[r].tasks[i].status = "pending"
    /\ ~allSettled(SettleTask(r, i))
    /\ runs' = [runs EXCEPT ![r].tasks = SettleTask(r, i)]
    /\ urls' = UrlsAfterTask(r, i)
    /\ UNCHANGED <<originalFiles, quality, isProcessing, compressedResults,
                   errors, launched, picked, rows>>

\* the last promise of a run settles and processFiles resumes after its
\* await
ProcessFilesResumes(r, i) ==
    /\ r \in DOMAIN runs
    /\ i \in 1..Len(runs[r].tasks)
    /\ runs[r].tasks[i].status = "pending"
    /\ allSettled(SettleTask(r, i))
    /\ compressedResults' =
           newCompressedResults(runs[r].files, SettleTask(r, i),
                                Len(runs[r].files))
    /\ errors' = newErrors(runs[r].files, SettleTask(r, i), Len(runs[r].files))
    /\ isProcessing' = FALSE
    /\ runs' = MapDelete(runs, r)
    /\ urls' = UrlsAfterTask(r, i)
    /\ UNCHANGED <<originalFiles, quality, launched, picked>>
    /\ Rendered

\* the bound of Spec: a selection or a slider move that would launch more
\* than MaxTasks compressFile calls in all is left out
WithinBound(files) == launched + Len(files) <= MaxTasks

\* the user picks files in the file dialog of the uploader
SelectFiles(files) ==
    /\ WithinBound(imageFiles(files))
    /\ HandleFileSelect(files)
    /\ UNCHANGED picked

\* the user moves the quality slider
MoveSlider(q) ==
    /\ WithinBound(originalFiles)
    /\ HandleQualityChange(q)

Next ==
    \/ \E files \in SpecSelections : SelectFiles(files)
    \/ HandleReset
    \/ \E q \in SliderInputs : MoveSlider(q)
    \/ \E r \in 1..MaxTasks, i \in 1..MaxTasks : CompressFileSettles(r, i)
    \/ \E r \in 1..MaxTasks, i \in 1..MaxTasks : ProcessFilesResumes(r, i)

Spec == Init /\ [][Next]_vars

\* the promise of task i of run r settles: the FileReader, the Image and
\* canvas.toBlob each call back
TaskSettles(r, i) == CompressFileSettles(r, i) \/ ProcessFilesResumes(r, i)

\* every pending promise of compressFile settles in the end
TasksSettle ==
    \A r \in 1..MaxTasks, i \in 1..MaxTasks : WF_vars(TaskSettles(r, i))

\* the selections of SpecLive: a file that compresses and one that fails
LiveSelections == Selections({Photo, Corrupt}, MaxTasks)

NextLive ==
    \/ \E files \in LiveSelections : SelectFiles(files)
    \/ HandleReset
    \/ \E q \in SliderInputs : MoveSlider(q)
    \/ \E r \in 1..MaxTasks, i \in 1..MaxTasks : CompressFileSettles(r, i)
    \/ \E r \in 1..MaxTasks, i \in 1..MaxTasks : ProcessFilesResumes(r, i)

SpecLive == Init /\ [][NextLive]_vars /\ TasksSettle

\* the user drops files on the uploader; the FileList is recorded
DropFiles(files) ==
    /\ HandleFileSelect(files)
    /\ picked' = files

\* the File Filter on selections long enough to be cut
NextFilter == \E files \in FilterSelections : DropFiles(files)

SpecFilter == Init /\ [][NextFilter]_vars

\* the file names of SpecNames: every string of a, b and dots
NameAlphabet == {"a", "b", "."}
Names == UNION {[1..k -> NameAlphabet] : k \in 1..MaxNameLen}

\* an image file called n that compresses
NamedFile(n) == [name |-> n, type |-> TypePng, size |-> 1000, faults |-> {}]

\* the selections of SpecNames: one file of each name
NameSelections == {<<NamedFile(n)>> : n \in Names}

\* the page renders the download name of a file of any name
NextNames == \E files \in NameSelections : DropFiles(files)

SpecNames == Init /\ [][NextNames]_vars

\* the places of compressFile that can reject, in the order the task
\* gets to them
Stages == {"readerror", "readresult", "decode", "context", "encode"}

\* an image file for which the stages fs fail
TaskFile(fs) ==
    [name |-> <<"t", ".", "p", "n", "g">>, type |-> TypePng,
     size |-> 1000, faults |-> fs]

\* the selections of SpecTask: one file of each combination of failures
TaskSelections == {<<TaskFile(fs)>> : fs \in SUBSET Stages}

\* the page on one file that fails at any stages of the task, compressed
\* and compressed again at other qualities
NextTask ==
    \/ \E files \in TaskSelections : SelectFiles(files)
    \/ \E q \in SliderInputs : MoveSlider(q)
    \/ \E r \in 1..MaxTasks, i \in 1..MaxTasks : ProcessFilesResumes(r, i)

SpecTask == Init /\ [][NextTask]_vars

\* the selections of SpecSlider
SliderSelections == {<<Photo>>}

\* the values the user tries to give the slider: every whole percentage
\* from zero to one step above the maximum
SliderPositions == 0..(QualityMax + QualityStep)

\* the page with the slider moved to any position it takes
NextSlider ==
    \/ \E files \in SliderSelections : SelectFiles(files)
    \/ HandleReset
    \/ \E q \in SliderPositions : MoveSlider(q)
    \/ \E r \in 1..MaxTasks, i \in 1..MaxTasks : ProcessFilesResumes(r, i)

SpecSlider == Init /\ [][NextSlider]_vars

----------------------------------------------------------------------------
(* Vocabulary of the properties *)

\* no two files of the batch share a name
DistinctNames(files) ==
    \A i, j \in 1..Len(files) : files[i].name = files[j].name => i = j

\* run r was started for a batch or a quality that is no longer current
Superseded(r) ==
    runs[r].files # originalFiles \/ runs[r].quality # quality

\* no processFiles call is suspended
Idle == DOMAIN runs = {}

----------------------------------------------------------------------------
(* C1: a handle that leaves the Result Store has been released: no step    *)
(* takes an object URL out of compressedResults without a revokeObjectURL  *)
(* call for it, so no handle is overwritten or abandoned un-released.      *)
C1_DroppedHandleIsReleased ==
    [][\A h \in UrlsOf(compressedResults) :
          h \in UrlsOf(compressedResults') \/ urls'[h] >= 1]_vars

(* C2: when a run started for a superseded batch or quality completes, it  *)
(* writes neither the result map nor the error map, and every object URL   *)
(* it created is released.                                                 *)
C2_StaleRunDiscarded ==
    [][\A r \in DOMAIN runs :
          (r \notin DOMAIN runs' /\ Superseded(r)) =>
              /\ compressedResults' = compressedResults
              /\ errors' = errors
              /\ \A i \in 1..Len(runs[r].files) :
                    <<r, i>> \in DOMAIN urls' => urls'[<<r, i>>] >= 1]_vars

(* C3: whenever no run is in flight and the batch is not empty, every file *)
(* of the batch, same-named files included, is in exactly one of the       *)
(* result map and the error map.                                           *)
C3_ExactlyOneOutcome ==
    (Idle /\ originalFiles # <<>>) =>
        \A i \in 1..Len(originalFiles) :
            (originalFiles[i].name \in DOMAIN compressedResults)
                # (originalFiles[i].name \in DOMAIN errors)

(* C4: every handle held in the Result Store has been created and has not  *)
(* been released.                                                          *)
C4_HeldHandleIsLive ==
    \A h \in UrlsOf(compressedResults) : h \in DOMAIN urls /\ urls[h] = 0

\* the store holds a handle while a handle of an earlier run is released
C4_Witness ==
    /\ compressedResults # EmptyMap
    /\ \E h \in DOMAIN urls : urls[h] >= 1

(* C5: URL.revokeObjectURL is called at most once for each object URL.     *)
C5_NoDoubleRelease == \A h \in DOMAIN urls : urls[h] <= 1

\* handles of two runs have been released, and a third run is in flight
C5_Witness ==
    /\ \E g, h \in DOMAIN urls : g[1] # h[1] /\ urls[g] = 1 /\ urls[h] = 1
    /\ ~Idle

C7_FailuresIsolated ==
    [][\A r \in DOMAIN runs :
          r \notin DOMAIN runs' =>
              /\ Cardinality({i \in 1..Len(runs[r].tasks) :
                                  runs[r].tasks[i].status = "pending"}) = 1
              /\ DistinctNames(runs[r].files) =>
                    \A i \in 1..Len(runs[r].files) :
                        LET name == runs[r].files[i].name IN
                        /\ (name \in DOMAIN compressedResults')
                               <=> (<<r, i>> \in DOMAIN urls')
                        /\ (name \in DOMAIN errors')
                               <=> (<<r, i>> \notin DOMAIN urls')
                        /\ (name \in DOMAIN compressedResults')
                               => compressedResults'[name].url = <<r, i>>]_vars

\* a run of a failing and a succeeding file has settled, the failing file
\* first in the batch
C7_Witness ==
    /\ Idle
    /\ Len(originalFiles) = 2
    /\ originalFiles[1].name \in DOMAIN errors
    /\ originalFiles[1].name \notin DOMAIN compressedResults
    /\ originalFiles[2].name \in DOMAIN compressedResults
    /\ originalFiles[2].name \notin DOMAIN errors

\* file.type begins with the six characters image/
HasImageType(file) ==
    /\ Len(file.type) >= 6
    /\ \A k \in 1..6 : file.type[k] = ImagePrefix[k]

\* the selections of Spec that hold no image
NoImageSelections ==
    Selections({f \in FileUniverse : ~HasImageType(f)}, MaxTasks)

(* C8: a selection of one or more files none of which is an image puts     *)
(* the validation error in the error map under the global key and changes  *)
(* neither the batch nor the Result Store, and starts no run.              *)
C8_NoImagesRejected ==
    [][\A files \in NoImageSelections :
          HandleFileSelect(files) =>
              /\ GlobalKey \in DOMAIN errors'
              /\ errors'[GlobalKey] = MsgNoImages
              /\ UNCHANGED <<originalFiles, compressedResults, runs,
                             launched, isProcessing, urls>>]_vars

\* the validation error is shown while the Result Store holds an outcome
C8_Witness ==
    /\ GlobalKey \in DOMAIN errors
    /\ originalFiles = <<>>
    /\ compressedResults # EmptyMap

\* the first n files of a selection whose type is an image type, in order
RECURSIVE FirstImages(_, _)
FirstImages(files, n) ==
    IF files = <<>> \/ n = 0 THEN <<>>
    ELSE IF HasImageType(Head(files))
         THEN <<Head(files)>> \o FirstImages(Tail(files), n - 1)
         ELSE FirstImages(Tail(files), n)

\* the number of image entries of a selection
ImageCount(files) ==
    Cardinality({i \in 1..Len(files) : HasImageType(files[i])})

(* C9: after a selection that holds an image, the batch is the first       *)
(* min(5, N) image files of the selection in their order, N the number of  *)
(* its image entries, and the error map is empty.                          *)
C9_BatchIsFirstFiveImages ==
    (picked # <<>> /\ ImageCount(picked) > 0) =>
        /\ originalFiles = FirstImages(picked, 5)
        /\ Len(originalFiles) =
               (IF ImageCount(picked) < 5 THEN ImageCount(picked) ELSE 5)
        /\ errors = EmptyMap

\* a selection of more than five images and a non-image has been cut to
\* five
C9_Witness ==
    /\ ImageCount(picked) > 5
    /\ ImageCount(picked) < Len(picked)
    /\ Len(originalFiles) = 5

(* C10: a reset calls revokeObjectURL once for every handle of the Result  *)
(* Store and leaves the batch, the result map and the error map empty and  *)
(* the quality at 80; it is enabled whenever the batch is not empty.       *)
C10_ResetReleasesAndClears ==
    /\ [][HandleReset =>
             /\ \A h \in UrlsOf(compressedResults) : urls'[h] = urls[h] + 1
             /\ originalFiles' = <<>>
             /\ compressedResults' = EmptyMap
             /\ errors' = EmptyMap
             /\ quality' = 80]_vars
    /\ [](originalFiles # <<>> => ENABLED HandleReset)

\* the one handle ever created has been released by a reset
C10_Witness ==
    /\ launched = 1
    /\ originalFiles = <<>>
    /\ urls # EmptyMap
    /\ \A h \in DOMAIN urls : urls[h] = 1

\* the position of the last dot of a name, 0 if it has none
LastDot(name) ==
    IF \E k \in 1..Len(name) : name[k] = "."
    THEN CHOOSE k \in 1..Len(name) :
             /\ name[k] = "."
             /\ \A j \in (k + 1)..Len(name) : name[j] # "."
    ELSE 0

\* a name with its final extension removed; a name with no dot has none
WithoutExtension(name) ==
    IF LastDot(name) = 0 THEN name ELSE SubSeq(name, 1, LastDot(name) - 1)

\* the characters of a name before its last dot; none if it has no dot
BeforeLastDot(name) ==
    IF LastDot(name) = 0 THEN <<>> ELSE SubSeq(name, 1, LastDot(name) - 1)

\* C11 as the specification words it: the download name of every file is
\* its name without the final extension followed by _compressed.jpg
C11_PlainSuffix ==
    \A i \in 1..Len(rows) :
        rows[i].download =
            WithoutExtension(originalFiles[i].name)
                \o <<"_", "c", "o", "m", "p", "r", "e", "s", "s", "e", "d",
                     ".", "j", "p", "g">>

(* C11: the download name of every file is the part of its name before    *)
(* the last dot, empty for a name with no dot, followed by                 *)
(* _KolerskyAI_compressed.jpg.                                             *)
C11_BrandedSuffix ==
    \A i \in 1..Len(rows) :
        rows[i].download =
            BeforeLastDot(originalFiles[i].name)
                \o <<"_", "K", "o", "l", "e", "r", "s", "k", "y", "A", "I",
                     "_", "c", "o", "m", "p", "r", "e", "s", "s", "e", "d",
                     ".", "j", "p", "g">>

\* the row of a file whose name has two dots and characters between them
C11_Witness ==
    /\ Len(rows) = 1
    /\ \E j, k \in 1..Len(originalFiles[1].name) :
          /\ j + 1 < k
          /\ originalFiles[1].name[j] = "."
          /\ originalFiles[1].name[k] = "."
    /\ Len(rows[1].download) > 26

(* C12: the download link of a row is enabled only if the result map holds *)
(* a Success under the file's name and isProcessing is false; the row of a *)
(* file whose outcome is a Failure, or that has no outcome, is disabled.   *)
C12_DownloadOnlyForSuccess ==
    \A i \in 1..Len(rows) :
        LET name == originalFiles[i].name IN
        /\ ~rows[i].disabled =>
               (name \in DOMAIN compressedResults /\ ~isProcessing)
        /\ name \in DOMAIN errors => rows[i].disabled
        /\ (name \notin DOMAIN compressedResults /\ name \notin DOMAIN errors)
               => rows[i].disabled

\* the kind of failure a message of the error map reports
KindOfMessage(msg) ==
    IF msg \in {MsgReadError, MsgReadResult} THEN "ReadFailure"
    ELSE IF msg = MsgImageError THEN "DecodeFailure"
    ELSE IF msg = MsgNoBlob THEN "EncodeFailure"
    ELSE IF msg = MsgNoContext THEN "ContextFailure"
    ELSE "other"

\* the position in the pipeline of the stage a fault belongs to
StageNumber(fault) ==
    IF fault \in {"readerror", "readresult"} THEN 1
    ELSE IF fault = "decode" THEN 2
    ELSE IF fault = "context" THEN 3
    ELSE 4

\* the kinds of failure by the position of their stage, with and without
\* the stage that gets the 2d context of the canvas
FourKinds ==
    <<"ReadFailure", "DecodeFailure", "ContextFailure", "EncodeFailure">>
ThreeKinds == <<"ReadFailure", "DecodeFailure", "Success", "EncodeFailure">>

\* the outcome of a file when the kinds of its stages are kinds: the kind
\* of the first stage that fails, Success if the stage has no kind of its
\* own or no stage fails
OutcomeBy(kinds, file) ==
    LET failing == {n \in 1..4 : kinds[n] # "Success"
                                  /\ \E x \in file.faults : StageNumber(x) = n}
    IN IF failing = {} THEN "Success"
       ELSE kinds[CHOOSE n \in failing : \A k \in failing : n <= k]

\* a run that completes writes, for each of its files, names being
\* distinct, exactly one outcome, the one that kinds gives
RunWrites(kinds) ==
    \A r \in DOMAIN runs :
        (r \notin DOMAIN runs' /\ DistinctNames(runs[r].files)) =>
            \A i \in 1..Len(runs[r].files) :
                LET file == runs[r].files[i] IN
                IF OutcomeBy(kinds, file) = "Success"
                THEN /\ file.name \in DOMAIN compressedResults'
                     /\ file.name \notin DOMAIN errors'
                ELSE /\ file.name \in DOMAIN errors'
                     /\ file.name \notin DOMAIN compressedResults'
                     /\ KindOfMessage(errors'[file.name])
                            = OutcomeBy(kinds, file)

\* C13 as the specification words it: the stages are reading, decoding
\* and re-encoding, and a failure is a ReadFailure, a DecodeFailure or an
\* EncodeFailure
C13_ThreeFailureKinds == [][RunWrites(ThreeKinds)]_vars

(* C13: a task ends in exactly one outcome: Success if reading, decoding,  *)
(* getting the canvas context and re-encoding all succeed, and otherwise   *)
(* the failure of the first of these four stages that fails.               *)
C13_FourFailureKinds == [][RunWrites(FourKinds)]_vars

\* a file whose canvas context and re-encoding both fail has been given
\* the failure of the canvas context
C13_Witness ==
    /\ Idle
    /\ Len(originalFiles) = 1
    /\ originalFiles[1].faults = {"context", "encode"}
    /\ originalFiles[1].name \in DOMAIN errors
    /\ errors[originalFiles[1].name] = MsgNoContext

(* C14: the quality is always a multiple of 5 from 10 to 100 percent; it   *)
(* is 80 initially and after every reset, and only the quality slider and  *)
(* the reset change it.                                                    *)
C14_QualityOnGrid ==
    /\ quality = 80
    /\ [](quality \in 10..100 /\ quality % 5 = 0)
    /\ [][HandleReset => quality' = 80]_vars
    /\ [][quality' # quality =>
             \/ HandleReset
             \/ \E q \in SliderPositions : HandleQualityChange(q)]_vars

\* the file has been compressed at 95 percent, and a reset has released
\* an earlier result
C14_Witness ==
    /\ quality = 95
    /\ ~isProcessing
    /\ \E name \in DOMAIN compressedResults :
          compressedResults[name].size = 1900
    /\ \E h \in DOMAIN urls : urls[h] = 1

(* C15: if every task settles, a state in which isProcessing is true is    *)
(* followed by one in which it is false, every run that is started         *)
(* completes, and the step that completes a run sets isProcessing to false *)
(* and writes an outcome for each file of the run.                         *)
C15_RunSettles ==
    /\ isProcessing ~> ~isProcessing
    /\ \A r \in 1..MaxTasks : (r \in DOMAIN runs) ~> (r \notin DOMAIN runs)
    /\ [][\A r \in DOMAIN runs :
              r \notin DOMAIN runs' =>
                  /\ ~isProcessing'
                  /\ \A i \in 1..Len(runs[r].files) :
                        runs[r].files[i].name
                            \in DOMAIN compressedResults' \cup DOMAIN errors'
             ]_vars

\* the run started by a move of the slider has settled and every file of
\* the batch has its outcome
C15_Witness ==
    /\ Idle
    /\ ~isProcessing
    /\ quality # 80
    /\ originalFiles # <<>>
    /\ \A i \in 1..Len(originalFiles) :
          originalFiles[i].name \in DOMAIN compressedResults \cup DOMAIN errors

(* C16: the step that starts a run releases every handle the Result Store  *)
(* holds, empties the success map, and launches one pending task for each  *)
(* file of the batch, all with the quality of that step.                   *)
C16_RunStartReleasesStore ==
    [][\A r \in DOMAIN runs' \ DOMAIN runs :
          /\ \A h \in UrlsOf(compressedResults) : urls'[h] = urls[h] + 1
          /\ compressedResults' = EmptyMap
          /\ isProcessing'
          /\ runs'[r].files = originalFiles'
          /\ runs'[r].quality = quality'
          /\ Len(runs'[r].tasks) = Len(originalFiles')
          /\ \A i \in 1..Len(runs'[r].tasks) :
                runs'[r].tasks[i].status = "pending"]_vars

(* C17: while the run started by a move of the slider to the current       *)
(* quality is in flight, the store holds no outcome: the result map is     *)
(* empty and the error map has no entry of a file.  (A selection starts    *)
(* its run at 80 percent, so a current run of another quality was started  *)
(* by the slider.)                                                         *)
C17_NoOutcomeOfOldQuality ==
    \A r \in DOMAIN runs :
        (~Superseded(r) /\ runs[r].quality # 80) =>
            /\ compressedResults = EmptyMap
            /\ DOMAIN errors \subseteq {GlobalKey}

(* C18: isProcessing is true whenever a run is in flight, and so the       *)
(* quality slider cannot be moved and no download link is enabled until    *)
(* every run that was launched has settled.                                *)
C18_ProcessingWhileInFlight ==
    ~Idle =>
        /\ isProcessing
        /\ \A q \in QualityGrid : ~ENABLED HandleQualityChange(q)
        /\ \A i \in 1..Len(rows) : rows[i].disabled

\* the names of the files of the batch
BatchNames == {originalFiles[i].name : i \in 1..Len(originalFiles)}

(* C19: every key of the result map and every key of the error map but    *)
(* the global one is the name of a file of the batch, so that the result   *)
(* map is empty when the batch is; and the validation error under the      *)
(* global key is removed only by a selection or a reset.                   *)
C19_KeysOfCurrentBatch ==
    /\ [](/\ DOMAIN compressedResults \subseteq BatchNames
          /\ DOMAIN errors \ {GlobalKey} \subseteq BatchNames
          /\ originalFiles = <<>> => compressedResults = EmptyMap)
    /\ [][(GlobalKey \in DOMAIN errors /\ GlobalKey \notin DOMAIN errors') =>
             \/ HandleReset
             \/ \E files \in SpecSelections : HandleFileSelect(files)]_vars

====
